---- MODULE Spec2Model ----
(***************************************************************************)
(* A model of performSwapAsync (src/src/exercise.ts): one run of the swap  *)
(* workflow against an ERC20 token contract, the 0x quote API and the      *)
(* Ethereum node.  Every `await` is an issue step followed by a response   *)
(* step of the external service, which either returns or rejects.          *)
(*                                                                         *)
(* Numbers.  amountToSellUnitAmount is a JS number; it is modelled as the  *)
(* exact decimal fraction  num / AmountScale.  A BigNumber is modelled as  *)
(* an exact fraction [num, den].  On-chain amounts are naturals (base      *)
(* units).  The token's decimals(), balance and allowance are chain state; *)
(* during the run the chain changes only through the run's own             *)
(* transactions.                                                           *)
(***************************************************************************)
EXTENDS Integers, Sequences, FiniteSets, TLC

\* ---- bounds of the model ----
MaxDecimals == 3      \* decimals() of the sell token ranges over 0..MaxDecimals
MaxBase == 10         \* on-chain balance and allowance range over 0..MaxBase base units
MaxAmount == 10       \* amountToSellUnitAmount ranges over (0..MaxAmount) / AmountScale
AmountDigits == 3     \* decimal digits of amountToSellUnitAmount kept by the model

AmountScale == 10 ^ AmountDigits

\* ---- addresses ----
Users == {"0xAlice", "0xBob"}
Tokens == {"0xDAI", "0xUSDC"}
erc20Proxy == "0xErc20Proxy"
Spenders == {erc20Proxy, "0xOther"}

\* ---- the quote API's possible answers (GetSwapQuoteResponse, as TxData) ----
QuoteResponses ==
  { [to |-> "0xExchange", data |-> "calldataA", gas |-> 1, gasPrice |-> 2, value |-> 0],
    [to |-> "0xForwarder", data |-> "calldataB", gas |-> 2, gasPrice |-> 1, value |-> 3] }

TxHashes == {"0xh1"}

NoTxData == [to |-> "", data |-> "", gas |-> 0, gasPrice |-> 0, value |-> 0]

VARIABLES
  \* parameters of performSwapAsync
  buyToken, sellToken, amountToSellUnitAmount, fromAddress,
  \* chain state of the sell token
  chainDecimals, chainBalance, chainAllowance,
  \* local variables of performSwapAsync
  decimals, tokenBalance, allowance, approveValue, sellAmountInBaseUnits,
  txData, tx,
  \* control
  pc, result, error,
  \* what the run did to the outside world, in order
  calls, responses, alerts, approveTxs, quoteRequests, quoteResponses,
  swapTxs, receipts

params == <<buyToken, sellToken, amountToSellUnitAmount, fromAddress>>
chain == <<chainDecimals, chainBalance, chainAllowance>>
locals == <<decimals, tokenBalance, allowance, approveValue,
            sellAmountInBaseUnits, txData, tx>>
trace == <<alerts, approveTxs, quoteRequests, quoteResponses, swapTxs, receipts>>
vars == <<params, chain, locals, pc, result, error, calls, responses, trace>>

\* ---------------------------------------------------------------------------
\* BigNumber arithmetic used by the code
\* ---------------------------------------------------------------------------

\* Web3Wrapper.toUnitAmount(amount, decimals) = amount / 10^decimals
toUnitAmount(amount, dec) == [num |-> amount, den |-> 10 ^ dec]

\* BigNumber.decimalPlaces(2): round to two decimal places, ROUND_HALF_UP
\* (bignumber.js default rounding mode); .toNumber() keeps the value
decimalPlaces2(x) == [num |-> (200 * x.num + x.den) \div (2 * x.den), den |-> 100]

\* the JS comparison  a < b  of two numbers
LessThan(a, b) == a.num * b.den < b.num * a.den

\* Web3Wrapper.toBaseUnitAmount(unitAmount, decimals) throws
\* "Invalid unit amount ... Too many decimal places" when 10^decimals * amount
\* is not an integer
hasDecimals(unitAmount, dec) == (unitAmount.num * (10 ^ dec)) % unitAmount.den # 0

\* variant: the unit amount is passed on without scaling by 10^decimals
toBaseUnitAmount_unscaled(unitAmount, dec) == unitAmount.num \div unitAmount.den

toBaseUnitAmount(unitAmount, dec) == (unitAmount.num * (10 ^ dec)) \div unitAmount.den

\* BigNumber.toString() of a non-negative integer: its decimal digits
DigitChars == <<"0", "1", "2", "3", "4", "5", "6", "7", "8", "9">>

RECURSIVE toString(_)
toString(n) ==
  IF n < 10 THEN <<DigitChars[n + 1]>>
  ELSE toString(n \div 10) \o <<DigitChars[(n % 10) + 1]>>

\* ---------------------------------------------------------------------------
\* Initial state: the call performSwapAsync(buy, sell, amount, from, provider)
\* ---------------------------------------------------------------------------
Init ==
  /\ fromAddress \in Users
  /\ sellToken \in Tokens
  /\ buyToken \in Tokens \ {sellToken}
  /\ amountToSellUnitAmount \in [num : 0..MaxAmount, den : {AmountScale}]
  /\ chainDecimals \in 0..MaxDecimals
  /\ chainBalance \in 0..MaxBase
  /\ \E a \in 0..MaxBase :
       chainAllowance = [o \in Users |-> [s \in Spenders |->
                           IF o = fromAddress /\ s = erc20Proxy THEN a ELSE 0]]
  /\ decimals = -1
  /\ tokenBalance = [num |-> -1, den |-> 100]
  /\ allowance = [num |-> -1, den |-> 100]
  /\ approveValue = -1
  /\ sellAmountInBaseUnits = <<>>
  /\ txData = NoTxData
  /\ tx = ""
  /\ pc = "decimals"
  /\ result = "running"
  /\ error = ""
  /\ calls = <<>>
  /\ responses = <<>>
  /\ alerts = <<>>
  /\ approveTxs = <<>>
  /\ quoteRequests = <<>>
  /\ quoteResponses = <<>>
  /\ swapTxs = <<>>
  /\ receipts = <<>>

\* an external call is issued: it is appended to the log and the run awaits it
Issue(op, awaiting) ==
  /\ result = "running"
  /\ calls' = Append(calls, op)
  /\ pc' = awaiting

\* the awaited call is answered: "ok", "rejected" (the call itself failed) or
\* "reverted" (the transaction was mined with a failure status)
Responded(kind) == responses' = Append(responses, kind)

Returned == Responded("ok")

\* an exception leaves performSwapAsync: the returned promise rejects
Throw(msg) ==
  /\ result' = "thrown"
  /\ error' = msg
  /\ pc' = "done"

\* ---------------------------------------------------------------------------
\* Step 1 (lines 87-99): does the user have enough balance?
\* ---------------------------------------------------------------------------

\* line 89: sellTokenWrapper.decimals().callAsync() is issued
ReadDecimals ==
  /\ pc = "decimals"
  /\ Issue("decimals", "await_decimals")
  /\ UNCHANGED <<params, chain, locals, result, error, responses, trace>>

\* line 89: the read returns; .toNumber()
DecimalsReturns ==
  /\ pc = "await_decimals"
  /\ Returned
  /\ decimals' = chainDecimals
  /\ pc' = "balanceOf"
  /\ UNCHANGED <<params, chain, tokenBalance, allowance, approveValue,
                 sellAmountInBaseUnits, txData, tx, result, error, calls, trace>>

\* line 91: sellTokenWrapper.balanceOf(fromAddress).callAsync() is issued
ReadBalance ==
  /\ pc = "balanceOf"
  /\ Issue("balanceOf", "await_balanceOf")
  /\ UNCHANGED <<params, chain, locals, result, error, responses, trace>>

\* lines 90-99: the balance returns, is converted to a unit amount rounded to
\* two decimal places and compared with the amount to sell
BalanceReturns ==
  /\ pc = "await_balanceOf"
  /\ Returned
  /\ tokenBalance' = decimalPlaces2(toUnitAmount(chainBalance, decimals))
  /\ IF LessThan(tokenBalance', amountToSellUnitAmount)
       THEN /\ alerts' = Append(alerts, "Not Enough Balance")
            /\ Throw("Not Enough Balance")
       ELSE /\ pc' = "allowance"
            /\ UNCHANGED <<alerts, result, error>>
  /\ UNCHANGED <<params, chain, decimals, allowance, approveValue,
                 sellAmountInBaseUnits, txData, tx, calls, approveTxs,
                 quoteRequests, quoteResponses, swapTxs, receipts>>

\* ---------------------------------------------------------------------------
\* Step 2 (lines 100-124): allowance of the 0x ERC20 proxy
\* ---------------------------------------------------------------------------

\* variant: the allowance read is issued without awaiting the balance read
ReadAllowance_unawaited ==
  /\ pc = "await_balanceOf"
  /\ Issue("allowance", "await_allowance")
  /\ UNCHANGED <<params, chain, locals, result, error, responses, trace>>

\* lines 104-106: allowance(fromAddress, erc20Proxy).callAsync() is issued
ReadAllowance ==
  /\ pc = "allowance"
  /\ Issue("allowance", "await_allowance")
  /\ UNCHANGED <<params, chain, locals, result, error, responses, trace>>

\* lines 103-111: the allowance returns, is rounded to two decimal places and
\* compared with the amount to sell
AllowanceReturns ==
  /\ pc = "await_allowance"
  /\ Returned
  /\ allowance' = decimalPlaces2(toUnitAmount(chainAllowance[fromAddress][erc20Proxy], decimals))
  /\ pc' = IF LessThan(allowance', amountToSellUnitAmount)
             THEN "approve_decimals" ELSE "quote_decimals"
  /\ UNCHANGED <<params, chain, decimals, tokenBalance, approveValue,
                 sellAmountInBaseUnits, txData, tx, result, error, calls, trace>>

\* line 117: decimals() is read again for the approval amount
ReadDecimalsForApprove ==
  /\ pc = "approve_decimals"
  /\ Issue("decimals", "await_approve_decimals")
  /\ UNCHANGED <<params, chain, locals, result, error, responses, trace>>

\* variant: the approval amount is converted with hard-coded decimals (6)
\* instead of the token's
DecimalsForApproveReturns_fixedDecimals ==
  /\ pc = "await_approve_decimals"
  /\ Returned
  /\ IF hasDecimals(amountToSellUnitAmount, chainDecimals)
       THEN /\ Throw("Invalid unit amount")
            /\ UNCHANGED approveValue
       ELSE /\ approveValue' = toBaseUnitAmount(amountToSellUnitAmount, 6)
            /\ pc' = "approve"
            /\ UNCHANGED <<result, error>>
  /\ UNCHANGED <<params, chain, decimals, tokenBalance, allowance,
                 sellAmountInBaseUnits, txData, tx, calls, trace>>

\* lines 115-118: Web3Wrapper.toBaseUnitAmount(amountToSellUnitAmount, decimals)
DecimalsForApproveReturns ==
  /\ pc = "await_approve_decimals"
  /\ Returned
  /\ IF hasDecimals(amountToSellUnitAmount, chainDecimals)
       THEN /\ Throw("Invalid unit amount")
            /\ UNCHANGED approveValue
       ELSE /\ approveValue' = toBaseUnitAmount(amountToSellUnitAmount, chainDecimals)
            /\ pc' = "approve"
            /\ UNCHANGED <<result, error>>
  /\ UNCHANGED <<params, chain, decimals, tokenBalance, allowance,
                 sellAmountInBaseUnits, txData, tx, calls, trace>>

\* the approval transaction of lines 112-122
ApproveTx(from, value) == [from |-> from, spender |-> erc20Proxy, value |-> value]

\* lines 112-122: approve(erc20Proxy, value).awaitTransactionSuccessAsync({from})
SendApprove ==
  /\ pc = "approve"
  /\ Issue("approve", "await_approve")
  /\ approveTxs' = Append(approveTxs, ApproveTx(fromAddress, approveValue))
  /\ UNCHANGED <<params, chain, locals, result, error, responses, alerts,
                 quoteRequests, quoteResponses, swapTxs, receipts>>

\* the approval is mined successfully: ERC20 approve sets the allowance
ApproveSucceeds ==
  /\ pc = "await_approve"
  /\ Returned
  /\ LET t == approveTxs[Len(approveTxs)] IN
       chainAllowance' = [chainAllowance EXCEPT ![t.from][t.spender] = t.value]
  /\ pc' = "quote_decimals"
  /\ UNCHANGED <<params, chainDecimals, chainBalance, locals, result, error,
                 calls, trace>>

\* variant: a reverted approval is caught and the run goes on to the quote
ApproveReverts_swallowed ==
  /\ pc = "await_approve"
  /\ Responded("reverted")
  /\ pc' = "quote_decimals"
  /\ UNCHANGED <<params, chain, locals, result, error, calls, trace>>

\* the approval is mined but reverted: awaitTransactionSuccessAsync throws
ApproveReverts ==
  /\ pc = "await_approve"
  /\ Responded("reverted")
  /\ Throw("Transaction failed")
  /\ UNCHANGED <<params, chain, locals, calls, trace>>

\* ---------------------------------------------------------------------------
\* Step 3 (lines 126-149): the quote request
\* ---------------------------------------------------------------------------

\* line 68 (called from line 129): decimals() is read for the quote amount
ReadDecimalsForQuote ==
  /\ pc = "quote_decimals"
  /\ Issue("decimals", "await_quote_decimals")
  /\ UNCHANGED <<params, chain, locals, result, error, responses, trace>>

\* lines 68-69, 128-133: convertValueFromHumanToEthereum(...).toString()
DecimalsForQuoteReturns ==
  /\ pc = "await_quote_decimals"
  /\ Returned
  /\ IF hasDecimals(amountToSellUnitAmount, chainDecimals)
       THEN /\ Throw("Invalid unit amount")
            /\ UNCHANGED sellAmountInBaseUnits
       ELSE /\ sellAmountInBaseUnits' =
                 toString(toBaseUnitAmount(amountToSellUnitAmount, chainDecimals))
            /\ pc' = "quote"
            /\ UNCHANGED <<result, error>>
  /\ UNCHANGED <<params, chain, decimals, tokenBalance, allowance, approveValue,
                 txData, tx, calls, trace>>

\* lines 135-140: the query parameters
QuoteParams(buy, sell, sellAmount, from) ==
  [buyToken |-> buy, sellToken |-> sell, sellAmount |-> sellAmount,
   takerAddress |-> from]

\* lines 141-143: axios.get(url, {params}) is issued
GetQuote ==
  /\ pc = "quote"
  /\ Issue("quote", "await_quote")
  /\ quoteRequests' = Append(quoteRequests,
        QuoteParams(buyToken, sellToken, sellAmountInBaseUnits, fromAddress))
  /\ UNCHANGED <<params, chain, locals, result, error, responses, alerts,
                 approveTxs, quoteResponses, swapTxs, receipts>>

\* lines 141-144: the HTTP response arrives; txData = httpResponse.data
QuoteReturns ==
  /\ pc = "await_quote"
  /\ Returned
  /\ \E r \in QuoteResponses :
       /\ quoteResponses' = Append(quoteResponses, r)
       /\ txData' = r
  /\ pc' = "send"
  /\ UNCHANGED <<params, chain, decimals, tokenBalance, allowance, approveValue,
                 sellAmountInBaseUnits, tx, result, error, calls, alerts,
                 approveTxs, quoteRequests, swapTxs, receipts>>

\* ---------------------------------------------------------------------------
\* Step 4 (lines 151-162): the swap transaction
\* ---------------------------------------------------------------------------

\* variant: the quote's value field is not forwarded
SwapTx_noValue(from, quote) ==
  [from |-> from, to |-> quote.to, data |-> quote.data, gas |-> quote.gas,
   gasPrice |-> quote.gasPrice, value |-> 0]

\* lines 153-160: the transaction handed to sendTransactionAsync
SwapTx(from, quote) ==
  [from |-> from, to |-> quote.to, data |-> quote.data, gas |-> quote.gas,
   gasPrice |-> quote.gasPrice, value |-> quote.value]

\* line 153: client.sendTransactionAsync(...) is issued
SendTransaction ==
  /\ pc = "send"
  /\ Issue("sendTransaction", "await_send")
  /\ swapTxs' = Append(swapTxs, SwapTx(fromAddress, txData))
  /\ UNCHANGED <<params, chain, locals, result, error, responses, alerts,
                 approveTxs, quoteRequests, quoteResponses, receipts>>

\* line 153: the node accepts the transaction and returns its hash
SendTransactionReturns ==
  /\ pc = "await_send"
  /\ Returned
  /\ \E h \in TxHashes : tx' = h
  /\ pc' = "receipt"
  /\ UNCHANGED <<params, chain, decimals, tokenBalance, allowance, approveValue,
                 sellAmountInBaseUnits, txData, result, error, calls, trace>>

\* line 161: client.awaitTransactionSuccessAsync(tx) is issued
AwaitReceipt ==
  /\ pc = "receipt"
  /\ Issue("awaitTransactionSuccess", "await_receipt")
  /\ UNCHANGED <<params, chain, locals, result, error, responses, trace>>

\* lines 161-163: the receipt reports success; the function returns
ReceiptSucceeds ==
  /\ pc = "await_receipt"
  /\ Returned
  /\ receipts' = Append(receipts, [transactionHash |-> tx, status |-> 1])
  /\ result' = "returned"
  /\ pc' = "done"
  /\ UNCHANGED <<params, chain, locals, error, calls, alerts, approveTxs,
                 quoteRequests, quoteResponses, swapTxs>>

\* variant: a reverted swap transaction is submitted again
ReceiptFails_resubmit ==
  /\ pc = "await_receipt"
  /\ Responded("reverted")
  /\ receipts' = Append(receipts, [transactionHash |-> tx, status |-> 0])
  /\ pc' = "send"
  /\ UNCHANGED <<params, chain, locals, result, error, calls, alerts, approveTxs,
                 quoteRequests, quoteResponses, swapTxs>>

\* line 161: the receipt reports a revert; awaitTransactionSuccessAsync throws
ReceiptFails ==
  /\ pc = "await_receipt"
  /\ Responded("reverted")
  /\ receipts' = Append(receipts, [transactionHash |-> tx, status |-> 0])
  /\ Throw("Transaction failed")
  /\ UNCHANGED <<params, chain, locals, calls, alerts, approveTxs,
                 quoteRequests, quoteResponses, swapTxs>>

\* ---------------------------------------------------------------------------
\* Any awaited external call may reject (network error, RPC error, HTTP
\* error); no try/catch exists in performSwapAsync, so the rejection leaves it.
\* ---------------------------------------------------------------------------
Awaiting == {"await_decimals", "await_balanceOf", "await_allowance",
             "await_approve_decimals", "await_approve", "await_quote_decimals",
             "await_quote", "await_send", "await_receipt"}

CallRejects ==
  /\ pc \in Awaiting
  /\ Responded("rejected")
  /\ Throw("call rejected")
  /\ UNCHANGED <<params, chain, locals, calls, trace>>

Next ==
  \/ ReadDecimals \/ DecimalsReturns
  \/ ReadBalance \/ BalanceReturns
  \/ ReadAllowance \/ AllowanceReturns
  \/ ReadDecimalsForApprove \/ DecimalsForApproveReturns
  \/ SendApprove \/ ApproveSucceeds \/ ApproveReverts
  \/ ReadDecimalsForQuote \/ DecimalsForQuoteReturns
  \/ GetQuote \/ QuoteReturns
  \/ SendTransaction \/ SendTransactionReturns
  \/ AwaitReceipt \/ ReceiptSucceeds \/ ReceiptFails
  \/ CallRejects

Spec == Init /\ [][Next]_vars

TypeOK ==
  /\ pc \in Awaiting \cup {"decimals", "balanceOf", "allowance", "approve_decimals",
                           "approve", "quote_decimals", "quote", "send", "receipt", "done"}
  /\ result \in {"running", "returned", "thrown"}
  /\ Len(responses) \in {Len(calls), Len(calls) - 1}

\* ===========================================================================
\* Properties
\* ===========================================================================

\* the exact amounts the properties speak about, in units of
\* 1 / (amountToSellUnitAmount.den * 10^chainDecimals)
AmountNeeded == amountToSellUnitAmount.num * (10 ^ chainDecimals)
Scaled(base) == base * amountToSellUnitAmount.den

\* the position of the first call of an operation in the log (0: never issued)
FirstCall(op) ==
  IF \E i \in 1..Len(calls) : calls[i] = op
    THEN CHOOSE i \in 1..Len(calls) : calls[i] = op /\ \A j \in 1..(i - 1) : calls[j] # op
    ELSE 0

Issued(op) == FirstCall(op) > 0

\* the call at position i has been answered successfully
Completed(i) == i <= Len(responses) /\ responses[i] = "ok"

\* reading a decimal string back (independent of toString)
DigitValue(c) == CHOOSE i \in 0..9 : DigitChars[i + 1] = c

RECURSIVE ParseNat(_)
ParseNat(str) ==
  IF str = <<>> THEN 0
  ELSE 10 * ParseNat(SubSeq(str, 1, Len(str) - 1)) + DigitValue(str[Len(str)])

Canonical(str) == Len(str) >= 1 /\ (Len(str) > 1 => str[1] # "0")

\* the five steps C1 orders
StepRank(op) ==
  CASE op = "balanceOf" -> 1
    [] op = "allowance" -> 2
    [] op = "approve" -> 3
    [] op = "quote" -> 4
    [] op = "sendTransaction" -> 5
    [] OTHER -> 0

\* C1: the external calls are issued in the order balance read, allowance
\* read, approval (if any), quote GET, swap submission; each of them is issued
\* only after every earlier call of the run has completed, so at most the last
\* call of the log is unanswered.
C1_FixedCallOrder ==
  /\ \A i, j \in 1..Len(calls) :
       (i < j /\ StepRank(calls[i]) > 0 /\ StepRank(calls[j]) > 0)
         => StepRank(calls[i]) < StepRank(calls[j])
  /\ Issued("allowance") => Issued("balanceOf")
  /\ Issued("approve") => Issued("allowance")
  /\ Issued("quote") => Issued("allowance")
  /\ Issued("sendTransaction") => Issued("quote")
  /\ \A i \in 1..(Len(calls) - 1) : Completed(i)

C1_Witness ==
  /\ result = "returned"
  /\ calls = <<"decimals", "balanceOf", "allowance", "decimals", "approve",
               "decimals", "quote", "sendTransaction", "awaitTransactionSuccess">>

\* C2: when the balance of fromAddress is less than the amount to sell, the
\* run shows the alert and fails, and issues no allowance read, approval,
\* quote request or swap transaction.  (Stated once the balance read has
\* been answered.)
C2_InsufficientBalanceStops ==
  (Scaled(chainBalance) < AmountNeeded /\ Issued("balanceOf")
     /\ Completed(FirstCall("balanceOf")))
    => /\ alerts = <<"Not Enough Balance">>
       /\ result = "thrown"
       /\ ~Issued("allowance") /\ ~Issued("approve")
       /\ ~Issued("quote") /\ ~Issued("sendTransaction")

\* C3: a call that is rejected or reverted is the last call of the run: the
\* run has ended with an exception, nothing is issued after it and it is not
\* issued again; a failed approval is not followed by a quote request, a failed
\* quote request is not followed by a swap transaction.
C3_FailurePropagates ==
  \A i \in 1..Len(responses) :
    responses[i] # "ok"
      => /\ result = "thrown"
         /\ pc = "done"
         /\ i = Len(calls)
         /\ (calls[i] = "approve" => quoteRequests = <<>> /\ swapTxs = <<>>)
         /\ (calls[i] = "quote" => swapTxs = <<>>)

C3_Witness ==
  /\ Len(responses) = 5
  /\ calls[5] = "approve"
  /\ responses[5] = "reverted"
  /\ result = "thrown"

\* C4: the balance check is passed (the allowance read is issued) only when
\* the on-chain balance in base units is at least amount * 10^decimals.
C4_BalanceCheckExact ==
  Issued("allowance") => Scaled(chainBalance) >= AmountNeeded

\* C5: whenever the quote request or the swap transaction has been issued,
\* the allowance of fromAddress for the ERC20 proxy is at least the sell
\* amount in base units.
C5_AllowanceCoversAmount ==
  (Issued("quote") \/ Issued("sendTransaction"))
    => Scaled(chainAllowance[fromAddress][erc20Proxy]) >= AmountNeeded

\* C6: every quote request carries exactly buyToken, sellToken, sellAmount
\* and takerAddress, with the wrappers' addresses, fromAddress and
\* sellAmount = the decimal string of amount * 10^decimals.
C6_QuoteParameters ==
  \A i \in 1..Len(quoteRequests) :
    LET q == quoteRequests[i] IN
      /\ DOMAIN q = {"buyToken", "sellToken", "sellAmount", "takerAddress"}
      /\ q.buyToken = buyToken
      /\ q.sellToken = sellToken
      /\ q.takerAddress = fromAddress
      /\ Canonical(q.sellAmount)
      /\ Scaled(ParseNat(q.sellAmount)) = AmountNeeded

C6_Witness ==
  /\ Len(quoteRequests) = 1
  /\ quoteRequests[1].sellAmount = <<"1", "0">>
  /\ chainDecimals = AmountDigits

\* C7: at most one quote request and at most one swap transaction per run; a
\* swap transaction only after a quote response; a normal return has issued
\* exactly one of each.
C7_OneQuoteOneSwap ==
  /\ Len(quoteRequests) <= 1
  /\ Len(swapTxs) <= 1
  /\ (Len(swapTxs) >= 1 => Len(quoteResponses) >= 1)
  /\ (result = "returned" => Len(quoteRequests) = 1 /\ Len(swapTxs) = 1)

C7_Witness ==
  /\ result = "returned"
  /\ Len(quoteRequests) = 1
  /\ Len(swapTxs) = 1
  /\ approveTxs = <<>>

\* C8: the approval is sent exactly when the balance check passed and the
\* allowance is less than the amount to sell; at most once, from fromAddress,
\* for the ERC20 proxy, with the sell amount in base units; when the allowance
\* is sufficient no approval is sent and the allowance stays as it was.
\* (The allowance on chain is the run's initial one until the approval is
\* mined, i.e. in every state named here.)
C8_ApprovalIffNeeded ==
  /\ Len(approveTxs) <= 1
  /\ pc = "await_approve"
       => /\ Scaled(chainAllowance[fromAddress][erc20Proxy]) < AmountNeeded
          /\ Issued("allowance")
          /\ approveTxs[1].from = fromAddress
          /\ approveTxs[1].spender = erc20Proxy
          /\ Scaled(approveTxs[1].value) = AmountNeeded
  /\ (pc = "quote_decimals" /\ approveTxs = <<>>)
       => Scaled(chainAllowance[fromAddress][erc20Proxy]) >= AmountNeeded

\* C9: the swap transaction has from = fromAddress and to, data, gas, gasPrice
\* and value of the quote response received in the run; the run returns
\* normally only after the receipt of that transaction reported success.
C9_SwapTxFromQuote ==
  /\ \A i \in 1..Len(swapTxs) :
       /\ Len(quoteResponses) = 1
       /\ swapTxs[i].from = fromAddress
       /\ swapTxs[i].to = quoteResponses[1].to
       /\ swapTxs[i].data = quoteResponses[1].data
       /\ swapTxs[i].gas = quoteResponses[1].gas
       /\ swapTxs[i].gasPrice = quoteResponses[1].gasPrice
       /\ swapTxs[i].value = quoteResponses[1].value
  /\ result = "returned"
       => /\ Len(swapTxs) = 1
          /\ Len(receipts) = 1
          /\ receipts[1].status = 1
          /\ calls[Len(calls)] = "awaitTransactionSuccess"
          /\ Completed(Len(calls))

C9_Witness ==
  /\ result = "returned"
  /\ swapTxs[1].value = 3
  /\ swapTxs[1].to = "0xForwarder"

\* C10: in a run that sends an approval and a quote request, the approved
\* amount equals the sellAmount of the quote request.
C10_ApprovedEqualsQuoted ==
  (Len(approveTxs) >= 1 /\ Len(quoteRequests) >= 1)
    => approveTxs[1].value = ParseNat(quoteRequests[1].sellAmount)

C10_Witness ==
  /\ Len(approveTxs) = 1
  /\ Len(quoteRequests) = 1
  /\ approveTxs[1].value > 0
  /\ chainDecimals < AmountDigits

====
